---- MODULE Spec2Model ----
(***************************************************************************)
(* A model of accounts/views.py of microservice-python-pp: the             *)
(* registration view, the three JWT views, the Celery task                 *)
(* send_email_survey_about_the_platform and the view that triggers it,     *)
(* and the session-scoped failed-login counter the specification           *)
(* describes.                                                              *)
(*                                                                         *)
(* Time is counted in whole hours.  A message is abstracted to its run,    *)
(* its recipient and which of the two texts it carries.  Database calls    *)
(* (the queryset, save()) are taken to succeed; the one exception source   *)
(* modelled inside the task is send_mail(fail_silently=False).             *)
(***************************************************************************)
EXTENDS Integers, Sequences, FiniteSets

VARIABLES
    users,         \* the user table, in primary-key order
    now,           \* datetime.datetime.now(), in hours
    regRequest,    \* data of the last POST /register
    regResponse,   \* its Response
    queue,         \* tasks enqueued by .delay() and not yet picked up
    pc,            \* the worker: "idle" or "loop" (inside the for loop)
    idx,           \* position of the for loop in the queryset
    runs,          \* one record per started run of the task
    outbox,        \* every message handed to send_mail successfully
    trigResponse,  \* the Response of the last EmailAPIView.post
    outstanding,   \* refresh tokens issued
    expired,       \* refresh tokens whose lifetime is over
    blacklist,     \* refresh tokens blacklisted
    tokLog,        \* the token endpoints' exchanges, oldest first
    session,       \* per session: the failed-login counter
    streak,        \* per session: failed login POSTs since the last success
    loginRequest,  \* the last login POST, with the counter it found
    loginResponse  \* what it rendered

vars == <<users, now, regRequest, regResponse, queue, pc, idx, runs, outbox,
          trigResponse, outstanding, expired, blacklist, tokLog,
          session, streak, loginRequest, loginResponse>>

regVars   == <<regRequest, regResponse>>
jobVars   == <<queue, pc, idx, runs, outbox, trigResponse>>
tokVars   == <<outstanding, expired, blacklist, tokLog>>
loginVars == <<session, streak, loginRequest, loginResponse>>

---------------------------------------------------------------------------
(* Bounds *)

MaxUsers == 2
MaxJoin == 0
MaxExtra == 1
MaxRuns == 2

(* Program constants *)

DAY == 24
HTTP_200_OK == 200
HTTP_201_CREATED == 201
HTTP_400_BAD_REQUEST == 400

Emails == 1..MaxUsers
MaxNow == DAY + MaxExtra

UserRecords ==
    [email : Emails, date_joined : 0..MaxJoin,
     confirmed_form_about_platform : BOOLEAN]

NoDuplicateEmail(table) ==
    \A i, j \in DOMAIN table : table[i].email = table[j].email => i = j

\* The tables the task starts from.  Emails are opaque and unique, so the
\* k-th user is given the k-th email; registration produces the other orders.
UserTables ==
    {t \in UNION {[1..n -> UserRecords] : n \in 0..MaxUsers} :
        \A k \in DOMAIN t : t[k].email = k}

---------------------------------------------------------------------------
(* The Celery task send_email_survey_about_the_platform *)

\* `>` where the code has `>=`
Eligible_strict(time_difference) == time_difference > DAY

Eligible(time_difference) == time_difference >= DAY

Variant(user) ==
    IF user.confirmed_form_about_platform THEN "thank_you" ELSE "invitation"

\* a task that marks the user as handled by clearing the flag
SavedUser_cleared(user) == [user EXCEPT !.confirmed_form_about_platform = FALSE]

\* `confirmed_form_about_platform == True` is a comparison whose value is
\* dropped; save() then writes the record back as it was read.
SavedUser(user) == user

\* a recipient list built from the wrong row
Recipient_first(table, k) == table[1].email

\* `recipient_list = [user.customuser.email]`
Recipient(table, k) == table[k].email

\* a handler inside the loop: the exception is noted and the loop goes on
Handler_continue(run, k) == [run EXCEPT !.raisedAt = k]

\* `except Exception: return HTTP_400_BAD_REQUEST`, around the whole loop
Handler(run, k) == [run EXCEPT !.raisedAt = k, !.result = HTTP_400_BAD_REQUEST]

NewRun(table) == [n |-> Len(table), reads |-> <<>>, raisedAt |-> 0, result |-> 0]

JobStart ==
    /\ pc = "idle"
    /\ queue > 0
    /\ queue' = queue - 1
    /\ runs' = Append(runs, NewRun(users))
    /\ idx' = 1
    /\ pc' = "loop"
    /\ UNCHANGED <<users, now, outbox, trigResponse, regVars, tokVars, loginVars>>

\* one iteration of `for user in users`
JobStep ==
    /\ pc = "loop"
    /\ idx <= runs[Len(runs)].n
    /\ LET r == Len(runs)
           user == users[idx]
           time_difference == now - user.date_joined
           read == [runs[r] EXCEPT !.reads = Append(@, now)]
       IN IF ~Eligible(time_difference)
          THEN /\ runs' = [runs EXCEPT ![r] = read]
               /\ idx' = idx + 1
               /\ pc' = "loop"
               /\ UNCHANGED <<users, outbox>>
          ELSE /\ users' = IF user.confirmed_form_about_platform
                           THEN [users EXCEPT ![idx] = SavedUser(user)]
                           ELSE users
               /\ \E delivered \in BOOLEAN :
                    IF delivered
                    THEN /\ outbox' = Append(outbox,
                                [run |-> r, user |-> idx,
                                 to |-> Recipient(users, idx),
                                 variant |-> Variant(user)])
                         /\ runs' = [runs EXCEPT ![r] = read]
                         /\ idx' = idx + 1
                         /\ pc' = "loop"
                    ELSE /\ outbox' = outbox
                         /\ runs' = [runs EXCEPT ![r] = Handler(read, idx)]
                         /\ idx' = idx + 1
                         /\ pc' = IF runs'[r].result = 0 THEN "loop" ELSE "idle"
    /\ UNCHANGED <<now, queue, trigResponse, regVars, tokVars, loginVars>>

\* the loop is exhausted: `return status.HTTP_200_OK`
JobFinish ==
    /\ pc = "loop"
    /\ idx > runs[Len(runs)].n
    /\ runs' = [runs EXCEPT ![Len(runs)].result = HTTP_200_OK]
    /\ pc' = "idle"
    /\ UNCHANGED <<users, now, queue, idx, outbox, trigResponse,
                   regVars, tokVars, loginVars>>

---------------------------------------------------------------------------
(* EmailAPIView *)

\* celery.result.AsyncResult.__eq__: equal to another AsyncResult or to a
\* str with the same id; for anything else NotImplemented, and Python falls
\* back to identity, which is False for an int.
ResultEquals(handle, other) ==
    CASE other.type = "AsyncResult" -> other.id = handle.id
      [] other.type = "str"         -> other.value = handle.id
      [] OTHER                      -> FALSE

Delay(n) == [type |-> "AsyncResult", id |-> n]

IntValue(v) == [type |-> "int", value |-> v]

EmailAPIView_post ==
    /\ Len(runs) + queue < MaxRuns
    /\ queue' = queue + 1
    /\ LET email_send == Delay(Len(runs) + queue + 1)
       IN trigResponse' =
            IF ResultEquals(email_send, IntValue(HTTP_200_OK))
            THEN [status |-> HTTP_200_OK, body |-> "success"]
            ELSE [status |-> HTTP_400_BAD_REQUEST, body |-> "error"]
    /\ UNCHANGED <<users, now, pc, idx, runs, outbox, regVars, tokVars, loginVars>>

Tick ==
    /\ now < MaxNow
    /\ now' = now + 1
    /\ UNCHANGED <<users, jobVars, regVars, tokVars, loginVars>>

---------------------------------------------------------------------------
(* UserRegisterView *)

RegistrationData == [email : Emails, password : {"ok", "weak", "missing"}]

\* UserRegisterSerializer.errors: the fields that fail validation.  An email
\* fails when it already belongs to a user, a password when it is missing
\* or too weak.
SerializerErrors(data, table) ==
    (IF \E i \in DOMAIN table : table[i].email = data.email
     THEN {"email"} ELSE {})
    \cup (IF data.password # "ok" THEN {"password"} ELSE {})

is_valid(data, table) == SerializerErrors(data, table) = {}

\* UserRegisterSerializer.save(): one new record, joined now
SerializerSave(data, table, t) ==
    Append(table, [email |-> data.email, date_joined |-> t,
                   confirmed_form_about_platform |-> FALSE])

Response(status, data) == [status |-> status, data |-> data]

\* a `Response(serializer.errors)` that forgot its status answers 200
RegisterOutcome_noStatus(data, table, t) ==
    IF is_valid(data, table)
    THEN [users |-> SerializerSave(data, table, t),
          response |-> Response(HTTP_201_CREATED, {})]
    ELSE [users |-> table,
          response |-> Response(HTTP_200_OK, SerializerErrors(data, table))]

\* `if serializer.is_valid:` without the call is always true
RegisterOutcome_noCall(data, table, t) ==
    [users |-> SerializerSave(data, table, t),
     response |-> Response(HTTP_201_CREATED, {})]

RegisterOutcome(data, table, t) ==
    IF is_valid(data, table)
    THEN [users |-> SerializerSave(data, table, t),
          response |-> Response(HTTP_201_CREATED, {})]
    ELSE [users |-> table,
          response |-> Response(HTTP_400_BAD_REQUEST, SerializerErrors(data, table))]

UserRegisterView_post ==
    \E data \in RegistrationData :
        LET out == RegisterOutcome(data, users, now)
        IN /\ regRequest' = data
           /\ users' = out.users
           /\ regResponse' = out.response
           /\ UNCHANGED <<now, jobVars, tokVars, loginVars>>

---------------------------------------------------------------------------
(* The JWT views.  TokenObtainPairView, TokenRefreshView and               *)
(* TokenBlacklistView are the token library's; the views of this           *)
(* repository call them and return what they return.                       *)

MaxTokens == 2
MaxExchanges == 4
HTTP_401_UNAUTHORIZED == 401

Tokens == 1..MaxTokens

Usable(t) == t \in outstanding /\ t \notin expired /\ t \notin blacklist

TokenResponse(status, access) == [status |-> status, access |-> access]

TokenObtainPairView_post(authenticated) ==
    IF authenticated
    THEN TokenResponse(HTTP_200_OK, TRUE)
    ELSE TokenResponse(HTTP_401_UNAUTHORIZED, FALSE)

\* a token that was never issued, has expired or is blacklisted fails
\* verification
TokenRefreshView_post(t) ==
    IF Usable(t) THEN TokenResponse(HTTP_200_OK, TRUE)
    ELSE TokenResponse(HTTP_401_UNAUTHORIZED, FALSE)

TokenBlacklistView_post(t) ==
    IF Usable(t) THEN TokenResponse(HTTP_200_OK, FALSE)
    ELSE TokenResponse(HTTP_401_UNAUTHORIZED, FALSE)

\* a view that builds its own answer instead of returning super's
OwnResponse(response) == TokenResponse(HTTP_200_OK, TRUE)

\* `response = super().post(...)`, a log line, `return response`
ReturnedResponse(response) == response

Exchange(view, t, inner) ==
    [view |-> view, token |-> t, inner |-> inner, response |-> ReturnedResponse(inner)]

CustomTokenObtainPairView_post ==
    /\ Len(tokLog) < MaxExchanges
    /\ \E authenticated \in BOOLEAN :
        LET inner == TokenObtainPairView_post(authenticated)
        IN IF authenticated
           THEN \E t \in Tokens \ outstanding :
                  /\ outstanding' = outstanding \cup {t}
                  /\ tokLog' = Append(tokLog, Exchange("obtain", t, inner))
           ELSE /\ outstanding' = outstanding
                /\ tokLog' = Append(tokLog, Exchange("obtain", 0, inner))
    /\ UNCHANGED <<users, now, regVars, jobVars, expired, blacklist, loginVars>>

CustomTokenRefreshView_post ==
    /\ Len(tokLog) < MaxExchanges
    /\ \E t \in Tokens :
        tokLog' = Append(tokLog, Exchange("refresh", t, TokenRefreshView_post(t)))
    /\ UNCHANGED <<users, now, regVars, jobVars, outstanding, expired, blacklist, loginVars>>

CustomTokenBlacklistView_post ==
    /\ Len(tokLog) < MaxExchanges
    /\ \E t \in Tokens :
        LET inner == TokenBlacklistView_post(t)
        IN /\ blacklist' = IF inner.status = HTTP_200_OK
                           THEN blacklist \cup {t} ELSE blacklist
           /\ tokLog' = Append(tokLog, Exchange("blacklist", t, inner))
    /\ UNCHANGED <<users, now, regVars, jobVars, outstanding, expired, loginVars>>

\* a refresh token reaches the end of its lifetime
Expire ==
    /\ \E t \in outstanding \ expired : expired' = expired \cup {t}
    /\ UNCHANGED <<users, now, regVars, jobVars, outstanding, blacklist, tokLog, loginVars>>

---------------------------------------------------------------------------
(* The login attempt guard: a login form view that keeps a failed-login    *)
(* counter in the session.                                                 *)

FAILED_LOGIN_ATTEMPTS_LIMIT == 3
MaxSessions == 2
MaxAttempts == 5

Sessions == 1..MaxSessions

Counter(s) == IF s \in DOMAIN session THEN session[s] ELSE 0

SetCounter(s, v) ==
    [x \in DOMAIN session \cup {s} |-> IF x = s THEN v ELSE session[x]]

CounterAfterSuccess_kept(prior) == prior

CounterAfterSuccess(prior) == 0

CounterAfterFailure(prior) == prior + 1

AdvisoryDue_above(counter) == counter > FAILED_LOGIN_ATTEMPTS_LIMIT

AdvisoryDue(counter) == counter >= FAILED_LOGIN_ATTEMPTS_LIMIT

FailureErrors(credentials, counter) ==
    (IF credentials = "wrong" THEN {"invalid_credentials"} ELSE {"validation"})
    \cup (IF AdvisoryDue(counter) THEN {"advisory"} ELSE {})

LoginView_post ==
    \E s \in Sessions, credentials \in {"valid", "wrong", "malformed"} :
        /\ credentials # "valid" => Counter(s) < MaxAttempts
        /\ loginRequest' = [session |-> s, credentials |-> credentials,
                             counter |-> Counter(s)]
        /\ IF credentials = "valid"
           THEN /\ session' = SetCounter(s, CounterAfterSuccess(Counter(s)))
                /\ streak' = [streak EXCEPT ![s] = 0]
                /\ loginResponse' = [outcome |-> "redirect", errors |-> {}]
           ELSE /\ session' = SetCounter(s, CounterAfterFailure(Counter(s)))
                /\ streak' = [streak EXCEPT ![s] = @ + 1]
                /\ loginResponse' =
                     [outcome |-> "form",
                      errors |-> FailureErrors(credentials, session'[s])]
        /\ UNCHANGED <<users, now, regVars, jobVars, tokVars>>

InitRest ==
    /\ regRequest = [email |-> 0, password |-> "none"]
    /\ regResponse = [status |-> 0, data |-> {}]
    /\ queue = 0
    /\ pc = "idle"
    /\ idx = 0
    /\ runs = <<>>
    /\ outbox = <<>>
    /\ trigResponse = [status |-> 0, body |-> "none"]
    /\ outstanding = {}
    /\ expired = {}
    /\ blacklist = {}
    /\ tokLog = <<>>
    /\ session = <<>>
    /\ streak = [s \in Sessions |-> 0]
    /\ loginRequest = [session |-> 0, credentials |-> "none", counter |-> 0]
    /\ loginResponse = [outcome |-> "none", errors |-> {}]

Init ==
    /\ users \in UserTables
    /\ now = DAY - 1
    /\ InitRest

NextJob == EmailAPIView_post \/ JobStart \/ JobStep \/ JobFinish \/ Tick

SpecJob == Init /\ [][NextJob]_vars

NextReg == UserRegisterView_post \/ Tick

SpecReg == Init /\ [][NextReg]_vars

InitEmpty ==
    /\ users = <<>>
    /\ now = DAY - 1
    /\ InitRest

NextTok ==
    \/ CustomTokenObtainPairView_post
    \/ CustomTokenRefreshView_post
    \/ CustomTokenBlacklistView_post
    \/ Expire

SpecTok == InitEmpty /\ [][NextTok]_vars

NextLogin == LoginView_post

SpecLogin == InitEmpty /\ [][NextLogin]_vars

---------------------------------------------------------------------------
(* Properties *)

Sent(r, k) == {i \in DOMAIN outbox : outbox[i].run = r /\ outbox[i].user = k}

Elapsed(r, k) == runs[r].reads[k] - users[k].date_joined

\* C1: in a run in which no send has failed, a user whose elapsed time at
\* its iteration is below 24 hours has no message of that run, and one at 24
\* hours or more has the invitation when the flag is false and the thank-you
\* when it is true.
C1_VariantByAgeAndFlag ==
    \A r \in DOMAIN runs :
        runs[r].raisedAt = 0 =>
            \A k \in 1..Len(runs[r].reads) :
                /\ Elapsed(r, k) < DAY => Sent(r, k) = {}
                /\ Elapsed(r, k) >= DAY =>
                     /\ Sent(r, k) # {}
                     /\ \A i \in Sent(r, k) :
                          outbox[i].variant =
                            IF users[k].confirmed_form_about_platform
                            THEN "thank_you" ELSE "invitation"

\* a finished run that skipped one user and messaged another at exactly 24 h
C1_Witness ==
    \E r \in DOMAIN runs :
        /\ runs[r].result = HTTP_200_OK
        /\ \E k \in 1..runs[r].n : Elapsed(r, k) = DAY /\ Sent(r, k) # {}
        /\ \E k \in 1..runs[r].n : Elapsed(r, k) < DAY /\ Sent(r, k) = {}

\* C2: every POST to the trigger endpoint is answered 200 with a success
\* status.
C2_TriggerReportsSuccess ==
    trigResponse.status # 0 =>
        trigResponse.status = HTTP_200_OK /\ trigResponse.body = "success"

RegisterStep == <<regRequest, regResponse, users>>' # <<regRequest, regResponse, users>>

\* C3: a registration whose data is valid is answered 201 with an empty body
\* and adds exactly one record; one whose data is invalid is answered 400
\* with the field errors and leaves the records as they were.
C3_RegisterOutcomes ==
    [][RegisterStep =>
        IF SerializerErrors(regRequest', users) = {}
        THEN /\ regResponse' = [status |-> HTTP_201_CREATED, data |-> {}]
             /\ Len(users') = Len(users) + 1
             /\ SubSeq(users', 1, Len(users)) = users
             /\ users'[Len(users')].email = regRequest'.email
        ELSE /\ regResponse'.status = HTTP_400_BAD_REQUEST
             /\ regResponse'.data = SerializerErrors(regRequest', users)
             /\ regResponse'.data # {}
             /\ users' = users]_vars

\* both outcomes have happened: the last request was refused and a user who
\* registered earlier is in the table
C3_Witness ==
    /\ regResponse.status = HTTP_400_BAD_REQUEST
    /\ \E k \in DOMAIN users : users[k].date_joined > MaxJoin

\* C4: no two user records share an email, and a registration with the email
\* of an existing user is answered 400 and creates no record.
C4_NoDuplicateEmail ==
    /\ []NoDuplicateEmail(users)
    /\ [][(RegisterStep /\ \E k \in DOMAIN users : users[k].email = regRequest'.email)
            => regResponse'.status = HTTP_400_BAD_REQUEST /\ users' = users]_vars

\* a registration with a taken email and an acceptable password was refused
C4_Witness ==
    /\ regResponse = [status |-> HTTP_400_BAD_REQUEST, data |-> {"email"}]
    /\ \E k \in DOMAIN users : users[k].email = regRequest.email

\* C5: after a blacklist exchange answered 200, every later refresh exchange
\* with the same token is answered with another status and no access token;
\* each view returns the response of the view it extends.
C5_BlacklistedNeverRefreshed ==
    /\ \A i, j \in DOMAIN tokLog :
        (/\ i < j
         /\ tokLog[i].view = "blacklist"
         /\ tokLog[i].response.status = HTTP_200_OK
         /\ tokLog[j].view = "refresh"
         /\ tokLog[j].token = tokLog[i].token)
        => tokLog[j].response.status # HTTP_200_OK /\ ~tokLog[j].response.access
    /\ \A i \in DOMAIN tokLog : tokLog[i].response = tokLog[i].inner

\* a token was refreshed, then blacklisted, then offered for refresh again
C5_Witness ==
    \E i, j, k \in DOMAIN tokLog :
        /\ i < j /\ j < k
        /\ tokLog[i].view = "refresh" /\ tokLog[i].response.status = HTTP_200_OK
        /\ tokLog[j].view = "blacklist" /\ tokLog[j].response.status = HTTP_200_OK
        /\ tokLog[k].view = "refresh"
        /\ tokLog[i].token = tokLog[j].token /\ tokLog[j].token = tokLog[k].token

LoginStep == loginVars' # loginVars

\* C6: a login POST with valid credentials leaves the session's counter at
\* 0, a failed one at its prior value plus 1.
C6_CounterResetOrIncrement ==
    [][LoginStep =>
        LET s == loginRequest'.session
        IN IF loginRequest'.credentials = "valid"
           THEN session'[s] = 0
           ELSE session'[s] = Counter(s) + 1]_vars

\* a success has reset a counter that had passed the limit, while another
\* session is still counting
C6_Witness ==
    /\ loginRequest.credentials = "valid"
    /\ loginRequest.counter > FAILED_LOGIN_ATTEMPTS_LIMIT
    /\ session[loginRequest.session] = 0
    /\ \E s \in DOMAIN session : session[s] > 0

\* C7: the response to a failed login carries the advisory exactly when the
\* session has FAILED_LOGIN_ATTEMPTS_LIMIT or more consecutive failures, a
\* failed login re-renders the form, and valid credentials always log in.
C7_AdvisoryAtLimit ==
    loginRequest.session \in Sessions =>
        IF loginRequest.credentials = "valid"
        THEN loginResponse.outcome = "redirect" /\ loginResponse.errors = {}
        ELSE /\ loginResponse.outcome = "form"
             /\ "advisory" \in loginResponse.errors
                  <=> streak[loginRequest.session] >= FAILED_LOGIN_ATTEMPTS_LIMIT

\* the failure that reaches the limit exactly carries the advisory
C7_Witness ==
    /\ loginRequest.session \in Sessions
    /\ streak[loginRequest.session] = FAILED_LOGIN_ATTEMPTS_LIMIT
    /\ "advisory" \in loginResponse.errors

\* C8: no step of the task changes any user's
\* confirmed_form_about_platform.
C8_FlagUnchanged ==
    [][/\ DOMAIN users' = DOMAIN users
       /\ \A k \in DOMAIN users :
            users'[k].confirmed_form_about_platform
              = users[k].confirmed_form_about_platform]_vars

\* a run sent a thank-you and then failed; the user thanked is still flagged
C8_Witness ==
    \E i \in DOMAIN outbox :
        /\ outbox[i].variant = "thank_you"
        /\ runs[outbox[i].run].result = HTTP_400_BAD_REQUEST
        /\ users[outbox[i].user].confirmed_form_about_platform

\* C9: a run in which the iteration of user k raised has no message for k or
\* any later user, keeps the messages of the eligible users before k, and
\* returns 400; a run returns 200 only having processed every user without
\* an exception, and returns nothing but 200 or 400.
C9_AbortOnFirstFailure ==
    \A r \in DOMAIN runs :
        /\ runs[r].result \in {0, HTTP_200_OK, HTTP_400_BAD_REQUEST}
        /\ runs[r].raisedAt # 0 =>
             /\ runs[r].result = HTTP_400_BAD_REQUEST
             /\ Len(runs[r].reads) = runs[r].raisedAt
             /\ \A i \in DOMAIN outbox :
                  outbox[i].run = r => outbox[i].user < runs[r].raisedAt
             /\ \A k \in 1..(runs[r].raisedAt - 1) :
                  Elapsed(r, k) >= DAY => Sent(r, k) # {}
        /\ runs[r].result = HTTP_200_OK =>
             runs[r].raisedAt = 0 /\ Len(runs[r].reads) = runs[r].n
        /\ runs[r].result = HTTP_400_BAD_REQUEST => runs[r].raisedAt # 0

\* a run failed at its second user after messaging the first, and the worker
\* is idle again
C9_Witness ==
    \E r \in DOMAIN runs :
        /\ runs[r].raisedAt = 2
        /\ runs[r].n >= 2
        /\ Sent(r, 1) # {}
        /\ (r = Len(runs) => pc = "idle")

Reached(r, k) == k <= Len(runs[r].reads) /\ runs[r].raisedAt # k

\* C10: a run has at most one message per user, each message goes to the
\* email of the user it was built for, and a user messaged in one run has a
\* message of the same variant in every later run whose iteration of that
\* user did not fail.
C10_NoMemoryOfSends ==
    /\ \A r \in DOMAIN runs : \A k \in DOMAIN users : Cardinality(Sent(r, k)) <= 1
    /\ \A i \in DOMAIN outbox : outbox[i].to = users[outbox[i].user].email
    /\ \A r1, r2 \in DOMAIN runs : \A k \in DOMAIN users :
        (r1 < r2 /\ Sent(r1, k) # {} /\ Reached(r2, k)) =>
            \E i \in Sent(r1, k), j \in Sent(r2, k) :
                outbox[i].variant = outbox[j].variant

\* the second user was messaged in two runs
C10_Witness ==
    \E r1, r2 \in DOMAIN runs :
        r1 < r2 /\ Sent(r1, 2) # {} /\ Sent(r2, 2) # {}

====
